---- MODULE Spec2Model ----
(***************************************************************************)
(* Surgery follow-up reminders of pipeline-tp-gui: the Slack client of     *)
(* app/integrations/slack_helpers.py (resolver caches, message sender,     *)
(* named destinations) and the reminder sweep of app/main/views.py         *)
(* (surgery_notification).                                                 *)
(*                                                                         *)
(* Strings are sequences of one-token strings, so that lstrip and the      *)
(* first-character test are computed.  None and the empty string are both  *)
(* the empty sequence: the code tests them by truthiness only.             *)
(***************************************************************************)
EXTENDS Integers, Sequences, FiniteSets, TLC

\* ------------------------------------------------------------------ bounds
\* records the store returns to one sweep: 0..MaxRecords
MaxRecords == 2
\* requests served in one behaviour (each constructs a client)
MaxClients == 2
\* failures of the store and of the Web API in one behaviour
MaxFaults == 2
\* operations called on one client directly, one after the other
MaxCalls == 2

\* ------------------------------------------------------- program constants
CacheMaxSize == 256

None == <<>>

\* ---------------------------------------------------------------- strings
RECURSIVE lstrip(_, _)
lstrip(s, ch) ==
    IF s # <<>> /\ Head(s) = ch THEN lstrip(Tail(s), ch) ELSE s

\* variant: a shape test that does not know the tag of a user
_looks_like_id_no_user(s) == s # <<>> /\ Head(s) \in {"C", "D", "G"}

_looks_like_id(s) == s # <<>> /\ Head(s) \in {"C", "D", "G", "U"}

startswith(s, ch) == s # <<>> /\ Head(s) = ch

\* --------------------------------------------------- the messaging service
\* The workspace directory as the service pages it: next_cursor 0 is the
\* empty cursor, otherwise the number of the next page.
ChannelPages ==
    << [channels |-> << [name |-> <<"s">>, id |-> <<"C", "1">>] >>,
        next_cursor |-> 2],
       [channels |-> << [name |-> <<"f">>, id |-> <<"C", "2">>] >>,
        next_cursor |-> 0] >>

UserPages ==
    << [members |-> << [name |-> <<"m">>, display_name |-> <<>>,
                        real_name |-> <<"q">>, deleted |-> TRUE,
                        id |-> <<"U", "0">>],
                       [name |-> <<"m">>, display_name |-> <<"M">>,
                        real_name |-> <<>>, deleted |-> FALSE,
                        id |-> <<"U", "1">>] >>,
        next_cursor |-> 2],
       [members |-> << [name |-> <<"k">>, display_name |-> <<>>,
                        real_name |-> <<"K">>, deleted |-> FALSE,
                        id |-> <<"U", "2">>] >>,
        next_cursor |-> 0] >>

\* conversations_open answers with the one-to-one conversation of the user
DmIdOf(user_id) == <<"D">> \o Tail(user_id)

\* What one call of the Slack Web API does: it answers, raises SlackApiError
\* (the service rejected the call) or raises another exception (transport).
Outcomes == {"ok", "SlackApiError", "Exception"}

\* The environment's choice for one step of the request: the set of the
\* calls that fail, each by its position among the calls of the step, and how.
OutcomeOf(o, n) ==
    IF \E f \in o : f.at = n THEN (CHOOSE f \in o : f.at = n).how ELSE "ok"

LastFault(o) ==
    IF o = {} THEN 0 ELSE CHOOSE p \in {f.at : f \in o} : \A f \in o : f.at <= p

\* ------------------------------------------------------------------ events
\* What the request emits, in order: log records of SlackClient._emit_log
\* (ev "slack"), log records of the view (ev "app") and calls of the Web API
\* (ev "call").
Ev(ev, name, target, resolved, text, extra) ==
    [ev |-> ev, name |-> name, target |-> target, resolved |-> resolved,
     text |-> text, extra |-> extra]

_emit_log(phase, target, text, resolved, extra) ==
    Ev("slack", phase, target, resolved, text, extra)

Call(api, arg) == Ev("call", api, arg, None, None, None)

CursorArg(cursor) == IF cursor = 0 THEN None ELSE <<ToString(cursor)>>

AppLog(tag, extra) == Ev("app", tag, None, None, None, extra)

\* ------------------------------------------------------------------ caches
\* functools.lru_cache(maxsize=256) on a method: one cache per method, keyed
\* by the arguments (self, label), most recently used first.
CacheHas(c, k) == \E i \in 1..Len(c) : c[i].key = k

CacheIdx(c, k) == CHOOSE i \in 1..Len(c) : c[i].key = k

CacheVal(c, k) == c[CacheIdx(c, k)].val

CacheDrop(c, i) == SubSeq(c, 1, i - 1) \o SubSeq(c, i + 1, Len(c))

CacheTouch(c, k) == <<c[CacheIdx(c, k)]>> \o CacheDrop(c, CacheIdx(c, k))

\* variant: a cache that keeps no negative result
CacheStore_positive_only(c, k, v) ==
    IF v = None THEN c ELSE <<[key |-> k, val |-> v]>> \o c

CacheStore(c, k, v) ==
    LET c2 == <<[key |-> k, val |-> v]>> \o c
    IN  IF Len(c2) > CacheMaxSize THEN SubSeq(c2, 1, CacheMaxSize) ELSE c2

\* variant: a cache shared by all clients
CacheKey_label_only(self, label) == <<0, label>>

CacheKey(self, label) == <<self, label>>

\* ---------------------------------------------------------------- resolver
\* The operations below run inside one step of the request.  They thread
\* st = [cc, uc, dc, tr, n]: the three caches, the events emitted so far and
\* the number of Web API calls the step has made; they answer
\* [st, val, exc] with exc the exception that leaves the operation.
Ret(st, val) == [st |-> st, val |-> val, exc |-> "none"]

Raise(st, exc) == [st |-> st, val |-> None, exc |-> exc]

Emit(st, e) == [st EXCEPT !.tr = Append(@, e)]

NetCall(st, api, arg) == [st EXCEPT !.tr = Append(@, Call(api, arg)), !.n = @ + 1]

MinOf(S) == CHOOSE i \in S : \A j \in S : i <= j

ChannelMatches(page, cname) ==
    {i \in 1..Len(page.channels) : page.channels[i].name = cname}

\* variant: a scan that reads the first page it is given and no other
ScanChannels_one_page(st, cname, cursor, o) ==
    LET st1  == NetCall(st, "conversations_list", CursorArg(cursor))
        out  == OutcomeOf(o, st1.n)
        page == ChannelPages[IF cursor = 0 THEN 1 ELSE cursor]
        hits == ChannelMatches(page, cname)
    IN  CASE out = "SlackApiError" ->
               Ret(Emit(st1, _emit_log("ERROR", <<"#">> \o cname,
                                       <<"(resolve_channel_id)">>, None,
                                       <<"slack_error">>)), None)
          [] out = "Exception" -> Raise(st1, "Exception")
          [] OTHER ->
               IF hits # {} THEN Ret(st1, page.channels[MinOf(hits)].id)
               ELSE Ret(st1, None)

RECURSIVE ScanChannels(_, _, _, _)
ScanChannels(st, cname, cursor, o) ==
    LET st1  == NetCall(st, "conversations_list", CursorArg(cursor))
        out  == OutcomeOf(o, st1.n)
        page == ChannelPages[IF cursor = 0 THEN 1 ELSE cursor]
        hits == ChannelMatches(page, cname)
    IN  CASE out = "SlackApiError" ->
               Ret(Emit(st1, _emit_log("ERROR", <<"#">> \o cname,
                                       <<"(resolve_channel_id)">>, None,
                                       <<"slack_error">>)), None)
          [] out = "Exception" -> Raise(st1, "Exception")
          [] OTHER ->
               IF hits # {} THEN Ret(st1, page.channels[MinOf(hits)].id)
               ELSE IF page.next_cursor = 0 THEN Ret(st1, None)
               ELSE ScanChannels(st1, cname, page.next_cursor, o)

resolve_channel_id_body(st, name_or_id, o) ==
    IF name_or_id = None THEN Ret(st, None)
    ELSE IF _looks_like_id(name_or_id) THEN Ret(st, name_or_id)
    ELSE ScanChannels(st, lstrip(name_or_id, "#"), 0, o)

\* variant: a cache that does not keep the None of a lookup the service
\* rejected
Memo_cc_unless_rejected(r, key) ==
    IF r.exc # "none" THEN r
    ELSE IF r.st.tr # <<>> /\ r.st.tr[Len(r.st.tr)].name = "ERROR" THEN r
    ELSE [r EXCEPT !.st.cc = CacheStore(@, key, r.val)]

\* lru_cache keeps what the call returned: a call that raised keeps nothing
Memo_cc(r, key) ==
    IF r.exc # "none" THEN r ELSE [r EXCEPT !.st.cc = CacheStore(@, key, r.val)]

resolve_channel_id(st, self, name_or_id, o) ==
    IF CacheHas(st.cc, CacheKey(self, name_or_id))
    THEN Ret([st EXCEPT !.cc = CacheTouch(@, CacheKey(self, name_or_id))],
             CacheVal(st.cc, CacheKey(self, name_or_id)))
    ELSE Memo_cc(resolve_channel_id_body(st, name_or_id, o),
                 CacheKey(self, name_or_id))

UserMatches(page, needle) ==
    {i \in 1..Len(page.members) :
        /\ ~page.members[i].deleted
        /\ needle \in {page.members[i].name, page.members[i].display_name,
                       page.members[i].real_name}}

RECURSIVE ScanUsers(_, _, _, _)
ScanUsers(st, needle, cursor, o) ==
    LET st1  == NetCall(st, "users_list", CursorArg(cursor))
        out  == OutcomeOf(o, st1.n)
        page == UserPages[IF cursor = 0 THEN 1 ELSE cursor]
        hits == UserMatches(page, needle)
    IN  CASE out = "SlackApiError" ->
               Ret(Emit(st1, _emit_log("ERROR", <<"user:">> \o needle,
                                       <<"(resolve_user_id)">>, None,
                                       <<"slack_error">>)), None)
          [] out = "Exception" -> Raise(st1, "Exception")
          [] OTHER ->
               IF hits # {} THEN Ret(st1, page.members[MinOf(hits)].id)
               ELSE IF page.next_cursor = 0 THEN Ret(st1, None)
               ELSE ScanUsers(st1, needle, page.next_cursor, o)

resolve_user_id_body(st, name_or_id, o) ==
    IF name_or_id = None THEN Ret(st, None)
    ELSE IF _looks_like_id(name_or_id) /\ startswith(name_or_id, "U")
         THEN Ret(st, name_or_id)
    ELSE ScanUsers(st, lstrip(name_or_id, "@"), 0, o)

Memo_uc(r, key) ==
    IF r.exc # "none" THEN r ELSE [r EXCEPT !.st.uc = CacheStore(@, key, r.val)]

resolve_user_id(st, self, name_or_id, o) ==
    IF CacheHas(st.uc, CacheKey(self, name_or_id))
    THEN Ret([st EXCEPT !.uc = CacheTouch(@, CacheKey(self, name_or_id))],
             CacheVal(st.uc, CacheKey(self, name_or_id)))
    ELSE Memo_uc(resolve_user_id_body(st, name_or_id, o),
                 CacheKey(self, name_or_id))

dm_channel_for_body(st, user_id, o) ==
    IF user_id = None THEN Ret(st, None)
    ELSE LET st1 == NetCall(st, "conversations_open", user_id)
             out == OutcomeOf(o, st1.n)
         IN  CASE out = "SlackApiError" ->
                    Ret(Emit(st1, _emit_log("ERROR", <<"dm:">> \o user_id,
                                            <<"(conversations_open)">>, None,
                                            <<"slack_error">>)), None)
               [] out = "Exception" -> Raise(st1, "Exception")
               [] OTHER -> Ret(st1, DmIdOf(user_id))

Memo_dc(r, key) ==
    IF r.exc # "none" THEN r ELSE [r EXCEPT !.st.dc = CacheStore(@, key, r.val)]

dm_channel_for(st, self, user_id, o) ==
    IF CacheHas(st.dc, CacheKey(self, user_id))
    THEN Ret([st EXCEPT !.dc = CacheTouch(@, CacheKey(self, user_id))],
             CacheVal(st.dc, CacheKey(self, user_id)))
    ELSE Memo_dc(dm_channel_for_body(st, user_id, o), CacheKey(self, user_id))

\* variant: a sender that does not look at the dry-run setting
_post_live_only(st, env, channel, text, target_label, o) ==
    IF channel = None \/ text = None
    THEN Ret(Emit(st, _emit_log("SKIP", target_label,
                                IF text = None THEN <<"(empty)">> ELSE text,
                                channel, <<"missing channel or text">>)), None)
    ELSE LET st2 == NetCall(Emit(st, _emit_log("PLAN", target_label, text,
                                               channel, None)),
                            "chat_postMessage", channel)
             out == OutcomeOf(o, st2.n)
         IN  CASE out = "SlackApiError" ->
                    Raise(Emit(st2, _emit_log("ERROR", target_label,
                               text, channel, <<"slack_error">>)),
                          "SlackApiError")
               [] out = "Exception" -> Raise(st2, "Exception")
               [] OTHER ->
                    Ret(Emit(st2, _emit_log("SENT", target_label,
                             text, channel, <<"ts">>)), None)

\* variant: a sender that does not look at the text
_post_any_text(st, env, channel, text, target_label, o) ==
    IF channel = None
    THEN Ret(Emit(st, _emit_log("SKIP", target_label,
                                IF text = None THEN <<"(empty)">> ELSE text,
                                channel, <<"missing channel or text">>)), None)
    ELSE LET st1 == Emit(st, _emit_log("PLAN", target_label, text, channel, None))
         IN  IF env.notify_dry_run
             THEN Ret(Emit(st1, _emit_log("DRY-RUN", target_label, text,
                                          channel, None)), None)
             ELSE LET st2 == NetCall(st1, "chat_postMessage", channel)
                      out == OutcomeOf(o, st2.n)
                  IN  CASE out = "SlackApiError" ->
                             Raise(Emit(st2, _emit_log("ERROR", target_label,
                                        text, channel, <<"slack_error">>)),
                                   "SlackApiError")
                        [] out = "Exception" -> Raise(st2, "Exception")
                        [] OTHER ->
                             Ret(Emit(st2, _emit_log("SENT", target_label,
                                      text, channel, <<"ts">>)), None)

\* variant: a sender that keeps a rejection by the service to itself
_post_swallowing(st, env, channel, text, target_label, o) ==
    IF channel = None \/ text = None
    THEN Ret(Emit(st, _emit_log("SKIP", target_label,
                                IF text = None THEN <<"(empty)">> ELSE text,
                                channel, <<"missing channel or text">>)), None)
    ELSE LET st1 == Emit(st, _emit_log("PLAN", target_label, text, channel, None))
         IN  IF env.notify_dry_run
             THEN Ret(Emit(st1, _emit_log("DRY-RUN", target_label, text,
                                          channel, None)), None)
             ELSE LET st2 == NetCall(st1, "chat_postMessage", channel)
                      out == OutcomeOf(o, st2.n)
                  IN  CASE out = "SlackApiError" ->
                             Ret(Emit(st2, _emit_log("ERROR", target_label,
                                      text, channel, <<"slack_error">>)), None)
                        [] out = "Exception" -> Raise(st2, "Exception")
                        [] OTHER ->
                             Ret(Emit(st2, _emit_log("SENT", target_label,
                                      text, channel, <<"ts">>)), None)

\* ------------------------------------------------------------------ sender
\* lines 147-165
_post(st, env, channel, text, target_label, o) ==
    IF channel = None \/ text = None
    THEN Ret(Emit(st, _emit_log("SKIP", target_label,
                                IF text = None THEN <<"(empty)">> ELSE text,
                                channel, <<"missing channel or text">>)), None)
    ELSE LET st1 == Emit(st, _emit_log("PLAN", target_label, text, channel, None))
         IN  IF env.notify_dry_run
             THEN Ret(Emit(st1, _emit_log("DRY-RUN", target_label, text,
                                          channel, None)), None)
             ELSE LET st2 == NetCall(st1, "chat_postMessage", channel)
                      out == OutcomeOf(o, st2.n)
                  IN  CASE out = "SlackApiError" ->
                             Raise(Emit(st2, _emit_log("ERROR", target_label,
                                        text, channel, <<"slack_error">>)),
                                   "SlackApiError")
                        [] out = "Exception" -> Raise(st2, "Exception")
                        [] OTHER ->
                             Ret(Emit(st2, _emit_log("SENT", target_label,
                                      text, channel, <<"ts">>)), None)

\* ------------------------------------------------------ named destinations
\* Every public helper leaves an "op" event when it is entered, so that the
\* events of one destination can be told from those of the next.
Enter(st, op) == Emit(st, Ev("op", op, None, None, None, None))

\* variant: a channel destination that hands the sender whatever the
\* resolver answered
post_to_channel_unchecked(ch, env, cfg_label, msg, o) ==
    IF ch.exc # "none" THEN ch
    ELSE _post(ch.st, env, ch.val, msg, cfg_label, o)

\* lines 172-176 and 181-185: what a channel destination does with the
\* answer ch of the resolver
post_to_channel(ch, env, cfg_label, msg, o) ==
    IF ch.exc # "none" THEN ch
    ELSE IF ch.val = None
    THEN Ret(Emit(ch.st, _emit_log("SKIP", cfg_label, msg, None,
                                   <<"channel not resolvable">>)), None)
    ELSE _post(ch.st, env, ch.val, msg, cfg_label, o)

send_to_shikigami_feed(st, slack, text, ping_channel, o) ==
    post_to_channel(
        IF slack.env.shikigami_channel # None
        THEN resolve_channel_id(Enter(st, "send_to_shikigami_feed"), slack.self,
                                slack.env.shikigami_channel, o)
        ELSE Ret(Enter(st, "send_to_shikigami_feed"), None),
        slack.env,
        IF slack.env.shikigami_channel # None THEN slack.env.shikigami_channel
        ELSE <<"(unset:SLACK_SHIKIGAMI_CHANNEL)">>,
        IF ping_channel THEN <<"<!channel>">> \o text ELSE text,
        o)

send_to_surgery_channel(st, slack, text, ping_channel, o) ==
    post_to_channel(
        IF slack.env.surgery_channel # None
        THEN resolve_channel_id(Enter(st, "send_to_surgery_channel"), slack.self,
                                slack.env.surgery_channel, o)
        ELSE Ret(Enter(st, "send_to_surgery_channel"), None),
        slack.env,
        IF slack.env.surgery_channel # None THEN slack.env.surgery_channel
        ELSE <<"(unset:SLACK_SURGERY_CHANNEL)">>,
        IF ping_channel THEN <<"<!channel>">> \o text ELSE text,
        o)

\* lines 198-202: what a direct message does with the answer dm of
\* dm_channel_for
dm_opened(dm, slack, uid, text, o) ==
    IF dm.exc # "none" THEN dm
    ELSE IF dm.val = None
    THEN Ret(Emit(dm.st, _emit_log("SKIP", <<"dm:">> \o uid, text, None,
                                   <<"could not open DM">>)), None)
    ELSE _post(dm.st, slack.env, dm.val, text, <<"dm:">> \o uid, o)

\* variant: a direct message that goes on to open the conversation
\* whatever the resolver answered
dm_resolved_unchecked(uid, slack, who_label, who_value, text, o) ==
    IF uid.exc # "none" THEN uid
    ELSE dm_opened(dm_channel_for(uid.st, slack.self, uid.val, o), slack,
                   uid.val, text, o)

\* lines 194-198: what a direct message does with the answer uid of
\* resolve_user_id
dm_resolved(uid, slack, who_label, who_value, text, o) ==
    IF uid.exc # "none" THEN uid
    ELSE IF uid.val = None
    THEN Ret(Emit(uid.st, _emit_log("SKIP", <<"dm:">> \o who_value, text, None,
                                    <<who_label, "not resolvable">>)), None)
    ELSE dm_opened(dm_channel_for(uid.st, slack.self, uid.val, o), slack,
                   uid.val, text, o)

_dm_user_if_enabled(st, slack, enabled, who_label, who_value, text, o) ==
    IF ~enabled
    THEN Ret(Emit(st, _emit_log("SKIP", <<"dm:", who_label>>, text, None,
                                <<who_label, "_DM=false">>)), None)
    ELSE IF who_value = None
    THEN Ret(Emit(st, _emit_log("SKIP", <<"dm:", who_label>>, text, None,
                                <<"unset:", who_label>>)), None)
    ELSE dm_resolved(resolve_user_id(st, slack.self, who_value, o), slack,
                     who_label, who_value, text, o)

dm_surgery_manager(st, slack, text, o) ==
    _dm_user_if_enabled(Enter(st, "dm_surgery_manager"), slack,
                        slack.env.surgery_manager_dm, "SLACK_SURGERY_MANAGER",
                        slack.env.surgery_manager, text, o)

dm_shikigami_manager(st, slack, text, o) ==
    _dm_user_if_enabled(Enter(st, "dm_shikigami_manager"), slack,
                        slack.env.shikigami_manager_dm,
                        "SLACK_SHIKIGAMI_MANAGER",
                        slack.env.shikigami_manager, text, o)

\* a try block runs its next statement unless an exception has left it
then_dm_surgery_manager(r, slack, text, o) ==
    IF r.exc # "none" THEN r ELSE dm_surgery_manager(r.st, slack, text, o)

then_send_to_shikigami_feed(r, slack, text, ping_channel, o) ==
    IF r.exc # "none" THEN r
    ELSE send_to_shikigami_feed(r.st, slack, text, ping_channel, o)

then_dm_shikigami_manager(r, slack, text, o) ==
    IF r.exc # "none" THEN r ELSE dm_shikigami_manager(r.st, slack, text, o)

\* variant: an inner handler that lets the exception through
swallow_nothing(r) == r

\* try: ... except Exception: pass
swallow(r) == [r EXCEPT !.exc = "none"]

Caught(h, caught) == [st |-> h.st, caught |-> caught, exc |-> h.exc]

\* try: t, except Exception: log and tell the shikigami manager, swallowing
\* what that raises.  Answers the state left, the exception the clause
\* caught and the exception that leaves the statement.
except_tell_manager(t, slack, tag, text, o) ==
    IF t.exc = "none" THEN Caught(t, "none")
    ELSE Caught(swallow(dm_shikigami_manager(
                            Emit(t.st, AppLog(tag, <<t.exc>>)), slack, text, o)),
                t.exc)

\* ------------------------------------------------------------------ inputs
\* SlackEnvConfig.from_env: the Slack settings of the process environment.
SurgeryProfiles ==
    { [channel |-> <<"#", "s">>, manager |-> <<"@", "m">>, dm |-> TRUE],
      [channel |-> <<"#", "z">>, manager |-> <<"@", "z">>, dm |-> TRUE],
      [channel |-> None,         manager |-> None,         dm |-> TRUE],
      [channel |-> <<"C", "7">>, manager |-> <<"U", "2">>, dm |-> FALSE] }

ShikigamiProfiles ==
    { [channel |-> <<"#", "f">>, manager |-> <<"@", "K">>, dm |-> TRUE],
      [channel |-> <<"#", "s">>, manager |-> <<"@", "m">>, dm |-> TRUE],
      [channel |-> None,         manager |-> <<"U", "1">>, dm |-> TRUE] }

SlackEnvConfig(dry, su, sh) ==
    [notify_dry_run       |-> dry,
     shikigami_channel    |-> sh.channel,
     shikigami_manager    |-> sh.manager,
     shikigami_manager_dm |-> sh.dm,
     surgery_channel      |-> su.channel,
     surgery_manager      |-> su.manager,
     surgery_manager_dm   |-> su.dm]

EnvSet ==
    {SlackEnvConfig(dry, su, sh) :
        dry \in BOOLEAN, su \in SurgeryProfiles, sh \in ShikigamiProfiles}

\* settings that name every destination by its identifier
LiteralEnv(dry) ==
    SlackEnvConfig(dry,
        [channel |-> <<"C", "7">>, manager |-> <<"U", "2">>, dm |-> TRUE],
        [channel |-> <<"G", "8">>, manager |-> <<"U", "2">>, dm |-> TRUE])

\* settings that name every destination by name, the audit feed being the
\* surgery channel and one person managing both
NamedEnv(dry) ==
    SlackEnvConfig(dry,
        [channel |-> <<"#", "s">>, manager |-> <<"@", "m">>, dm |-> TRUE],
        [channel |-> <<"#", "s">>, manager |-> <<"@", "m">>, dm |-> TRUE])

\* The sweep runs on day Today; experiment.Surgery rows carry a date, from
\* today back to four days ago.
Today == 4

Dates == (Today - 4)..Today

\* What the record store answers to the fetch of line 687: rows ordered by
\* date, latest first.  The window restriction of the query is evaluated by
\* the store; the loop checks delta_days again for every row it is handed,
\* and that check is modelled for every date a row can carry.
SurgeryLists ==
    UNION {
      {s \in [1..n -> [animal_id : 1..n, date : Dates]] :
          /\ \A k \in 1..n : s[k].animal_id = k
          /\ \A k \in 1..(n - 1) : s[k].date >= s[k + 1].date}
      : n \in 0..MaxRecords}

\* What the store answers to the fetch of line 691: the status rows of one
\* surgery, latest first; only statuses[0] is read.
StatusRows ==
    [euthanized : {0, 1}, day_one : {0, 1}, day_two : {0, 1}, day_three : {0, 1}]

StatusLists == {<<>>} \cup {<<r>> : r \in StatusRows}

\* one surgery of yesterday
OneDue == << [animal_id |-> 1, date |-> Today - 1] >>

\* a surgery of yesterday and one of the day before
TwoDue == << [animal_id |-> 1, date |-> Today - 1],
             [animal_id |-> 2, date |-> Today - 2] >>

\* ---------------------------------------------------------- state variables
VARIABLES
    environ,       \* the Slack settings of the process
    store,         \* the experiment.Surgery rows the store answers with
    faults_left,   \* failures the store and the Web API may still produce
    requests_left, \* requests still to arrive
    pc,            \* where the request handler stands
    slack,         \* the SlackClient of the request: [self, env]
    cc, uc, dc,    \* lru caches of resolve_channel_id, resolve_user_id, dm_channel_for
    force, run_test,
    surgeries, i, statuses, should_send,
    sent, skipped, errors, notes,
    trace,         \* events since the evaluation of the current record began
    response,      \* what the handler returned
    probe          \* the last operation called on the client directly

vars == <<environ, store, faults_left, requests_left, pc, slack, cc, uc, dc,
          force, run_test, surgeries, i, statuses, should_send,
          sent, skipped, errors, notes, trace, response, probe>>

world == <<environ, store>>

caches == <<cc, uc, dc>>

loopvars == <<surgeries, i, statuses, should_send>>

counters == <<sent, skipped, errors, notes>>

\* ------------------------------------------------------- decision helpers
num_to_word == [d \in 1..3 |-> CASE d = 1 -> "one" [] d = 2 -> "two" [] OTHER -> "three"]

\* variant: every day of the window read from the first day's flag
DayKey_first_day(delta_days) == "day_one"

DayKey(delta_days) == "day_" \o num_to_word[delta_days]

StatusGet(status, key) ==
    CASE key = "euthanized" -> status.euthanized
      [] key = "day_one"    -> status.day_one
      [] key = "day_two"    -> status.day_two
      [] key = "day_three"  -> status.day_three

\* variant: the difference taken the other way round
DeltaDays_reversed(entry) == entry.date - Today

DeltaDays(entry) == Today - entry.date

\* variant: a decision that does not look at the euthanized flag
ShouldSend_ignoring_euthanized(f, status, day_key) ==
    f \/ StatusGet(status, day_key) = 0

\* variant: a decision that does not look at force
ShouldSend_ignoring_force(f, status, day_key) ==
    StatusGet(status, "euthanized") = 0 /\ StatusGet(status, day_key) = 0

ShouldSend(f, status, day_key) ==
    f \/ (StatusGet(status, "euthanized") = 0 /\ StatusGet(status, day_key) = 0)

RECURSIVE Join(_, _)
Join(parts, sep) ==
    IF parts = <<>> THEN <<>>
    ELSE IF Len(parts) = 1 THEN <<Head(parts)>>
    ELSE <<Head(parts), sep>> \o Join(Tail(parts), sep)

\* variant: a reason that names the euthanized flag only
ReasonFlags_terminal_only(status, day_key) ==
    IF StatusGet(status, "euthanized") # 0 THEN <<"euthanized=1">> ELSE <<>>

ReasonFlags(status, day_key) ==
    (IF StatusGet(status, "euthanized") # 0 THEN <<"euthanized=1">> ELSE <<>>)
    \o (IF StatusGet(status, day_key) # 0 THEN <<day_key \o "=1">> ELSE <<>>)

Reason(status, day_key) ==
    IF ReasonFlags(status, day_key) # <<>>
    THEN Join(ReasonFlags(status, day_key), "and")
    ELSE <<"unknown_reason">>

SkipNote(reason, entry) ==
    [kind |-> "skip", reason |-> reason, animal_id |-> entry.animal_id,
     day |-> 0, suffix |-> <<>>]

\* variant: a note that never says the send was forced
SentNote_plain(entry, delta_days, f) ==
    [kind |-> "sent", reason |-> <<>>, animal_id |-> entry.animal_id,
     day |-> delta_days, suffix |-> <<>>]

SentNote(entry, delta_days, f) ==
    [kind |-> "sent", reason |-> <<>>, animal_id |-> entry.animal_id,
     day |-> delta_days, suffix |-> IF f THEN <<"(forced)">> ELSE <<>>]


\* no operation has been called on the client directly
NoCall ==
    [op |-> "none", arg |-> None, text |-> None, ping |-> FALSE,
     val |-> None, exc |-> "none", n |-> 0, o |-> {}]

\* ----------------------------------------------------------- initial states
\* Three families of initial states.  InitDecision: every answer of the
\* store, under settings that need no lookup, one request, at most one
\* failure.  InitDispatch: every setting, one due surgery, one request, up
\* to MaxFaults failures.  InitRepeat: settings that need lookups and name
\* one channel and one manager twice, two due surgeries, MaxClients requests
\* one after the other, at most one failure.
InitDecision ==
    /\ environ \in {LiteralEnv(dry) : dry \in BOOLEAN}
    /\ store \in SurgeryLists
    /\ faults_left = 1
    /\ requests_left = 1

InitDispatch ==
    /\ environ \in EnvSet
    /\ store = OneDue
    /\ faults_left = MaxFaults
    /\ requests_left = 1

InitRepeat ==
    /\ environ \in {NamedEnv(dry) : dry \in BOOLEAN}
    /\ store = TwoDue
    /\ faults_left = 1
    /\ requests_left = MaxClients

Init ==
    /\ InitDecision \/ InitDispatch \/ InitRepeat
    /\ pc = "idle"
    /\ slack = [self |-> 0, env |-> environ]
    /\ cc = <<>> /\ uc = <<>> /\ dc = <<>>
    /\ force = FALSE /\ run_test = FALSE
    /\ surgeries = <<>> /\ i = 0 /\ statuses = <<>> /\ should_send = FALSE
    /\ sent = 0 /\ skipped = 0 /\ errors = 0 /\ notes = <<>>
    /\ trace = <<>>
    /\ response = "none"
    /\ probe = NoCall

\* the state a step of the request hands to the Slack helpers
Step == [cc |-> cc, uc |-> uc, dc |-> dc, tr |-> trace, n |-> 0]

\* what the helpers leave behind
Leaves(st) ==
    /\ cc' = st.cc /\ uc' = st.uc /\ dc' = st.dc
    /\ trace' = st.tr

base_msg == <<"base_msg">>

\* -------------------------------------------------- the steps that send
\* lines 648-652: the try block of test mode
TestTry(st, sl, o) ==
    then_send_to_shikigami_feed(
        then_dm_surgery_manager(
            send_to_surgery_channel(Emit(st, AppLog("SurgeryNotify TEST", None)),
                                    sl, <<"[test]">>, TRUE, o),
            sl, <<"[test]">>, o),
        sl, <<"[surgery]", "[test]">>, FALSE, o)

\* lines 649-665: the try block and its except clause
TestRun(st, sl, o) ==
    except_tell_manager(TestTry(st, sl, o), sl, "SurgeryNotify TEST failed",
                        <<":warning:", "test failed">>, o)

TestCalls(o) == TestRun(Step, slack, o).st.n

\* variant: an escalation outside any try statement
Escalate_unguarded(st, sl, o) ==
    then_dm_shikigami_manager(
        send_to_shikigami_feed(Emit(st, AppLog("job failed", <<"Exception">>)),
                               sl, <<":rotating_light:", "job failed">>, TRUE, o),
        sl, <<":rotating_light:", "job failed">>, o)

\* lines 762-767: the escalation of the sweep's handler, best effort: an
\* exception of the feed skips the direct message
Escalate(st, sl, o) ==
    swallow(then_dm_shikigami_manager(
        send_to_shikigami_feed(Emit(st, AppLog("job failed", <<"Exception">>)),
                               sl, <<":rotating_light:", "job failed">>, TRUE, o),
        sl, <<":rotating_light:", "job failed">>, o))

EscalateCalls(o) == Escalate(Step, slack, o).st.n

\* lines 729-735: the try block of one due record
SendTry(st, sl, o) ==
    then_send_to_shikigami_feed(
        then_dm_surgery_manager(
            send_to_surgery_channel(st, sl, <<"Reminder:">> \o base_msg, TRUE, o),
            sl, base_msg, o),
        sl, <<"[surgery]">> \o base_msg, FALSE, o)

\* lines 729-742: the try block and its except clause
SendRun(st, sl, o) ==
    except_tell_manager(SendTry(st, sl, o), sl, "SurgeryNotify ERROR",
                        <<":rotating_light:", "send failed">>, o)

SendCalls(o) == SendRun(Step, slack, o).st.n

\* The number of Web API calls a step of the request makes under oracle o.
CallsOf(step, o) ==
    CASE step = "test"     -> TestCalls(o)
      [] step = "escalate" -> EscalateCalls(o)
      [] step = "send"     -> SendCalls(o)

\* The oracles that extend o by at most k later failures, every failure
\* falling on a call the step really makes.
RECURSIVE Oracles(_, _, _)
Oracles(step, o, k) ==
    IF k <= 0 THEN {o}
    ELSE {o} \cup UNION {
             Oracles(step, o \cup {[at |-> p, how |-> h]}, k - 1)
             : p \in (LastFault(o) + 1)..CallsOf(step, o),
               h \in Outcomes \ {"ok"}}

\* ----------------------------------------------------------------- actions
\* lines 640-644, 668-673: a request arrives; the handler constructs its
\* client and reads the force and test arguments.
StartRequest ==
    /\ pc \in {"idle", "done"}
    /\ requests_left > 0
    /\ requests_left' = requests_left - 1
    /\ \E f \in BOOLEAN, t \in BOOLEAN :
        /\ force' = f
        /\ run_test' = t
        /\ pc' = IF t THEN "test" ELSE "fetch"
    /\ slack' = [self |-> slack.self + 1, env |-> environ]
    /\ surgeries' = <<>> /\ i' = 0 /\ statuses' = <<>> /\ should_send' = FALSE
    /\ sent' = 0 /\ skipped' = 0 /\ errors' = 0 /\ notes' = <<>>
    /\ trace' = <<>>
    /\ response' = "none"
    /\ UNCHANGED <<probe, world, faults_left, caches>>

TestReturns(r, o) ==
    /\ Leaves(r.st)
    /\ faults_left' = faults_left - Cardinality(o)
    /\ response' = IF r.exc # "none" THEN "unhandled"
                   ELSE IF r.caught = "none" THEN "test_ok" ELSE "test_error"

\* lines 646-666
TestMode ==
    /\ pc = "test"
    /\ \E o \in Oracles("test", {}, faults_left) :
        TestReturns(TestRun(Step, slack, o), o)
    /\ pc' = "done"
    /\ UNCHANGED <<probe, world, requests_left, slack, force, run_test, loopvars, counters>>

\* lines 675-687
Fetch ==
    /\ pc = "fetch"
    /\ surgeries' = store
    /\ pc' = "loop"
    /\ UNCHANGED <<probe, world, faults_left, requests_left, slack, caches, force,
                   run_test, i, statuses, should_send, counters, trace, response>>

Escalated(r) ==
    /\ Leaves(r.st)
    /\ pc' = IF r.exc = "none" THEN "summary" ELSE "done"
    /\ response' = IF r.exc = "none" THEN response ELSE "unhandled"

\* lines 760-767: the handler of the sweep.  It is entered when the store
\* raises while the rows or the status rows of the next record are fetched,
\* and when an exception leaves the loop body; it counts an error and
\* escalates.
JobFailed ==
    /\ pc \in {"fetch", "loop", "failed"}
    /\ pc = "loop" => i < Len(surgeries)
    /\ pc # "failed" => faults_left > 0
    /\ errors' = errors + 1
    /\ LET raised == IF pc = "failed" THEN 0 ELSE 1
       IN  \E o \in Oracles("escalate", {}, faults_left - raised) :
               /\ Escalated(Escalate(Step, slack, o))
               /\ faults_left' = faults_left - Cardinality(o) - raised
    /\ UNCHANGED <<probe, world, requests_left, slack, force, run_test, loopvars,
                   sent, skipped, notes>>

\* variant: force sends a record that has no status row
SkipNoStatus_unless_forced ==
    /\ pc = "loop" /\ i < Len(surgeries)
    /\ statuses' = <<>>
    /\ i' = i + 1
    /\ IF force
       THEN /\ should_send' = TRUE
            /\ trace' = <<>>
            /\ pc' = "dispatch"
            /\ UNCHANGED counters
       ELSE /\ trace' = <<AppLog("SurgeryNotify SKIP", <<"no_status">>)>>
            /\ notes' = Append(notes, SkipNote(<<"no_status">>, surgeries[i + 1]))
            /\ skipped' = skipped + 1
            /\ UNCHANGED <<pc, should_send, sent, errors>>
    /\ UNCHANGED <<probe, world, faults_left, requests_left, slack, caches, force,
                   run_test, surgeries, response>>

\* lines 689-698
SkipNoStatus ==
    /\ pc = "loop" /\ i < Len(surgeries)
    /\ statuses' = <<>>
    /\ i' = i + 1
    /\ trace' = <<AppLog("SurgeryNotify SKIP", <<"no_status">>)>>
    /\ notes' = Append(notes, SkipNote(<<"no_status">>, surgeries[i + 1]))
    /\ skipped' = skipped + 1
    /\ UNCHANGED <<probe, world, faults_left, requests_left, pc, slack, caches, force,
                   run_test, surgeries, should_send, sent, errors, response>>

\* lines 700-707
SkipDeltaDays ==
    /\ pc = "loop" /\ i < Len(surgeries)
    /\ \E sl \in StatusLists \ {<<>>} : statuses' = sl
    /\ DeltaDays(surgeries[i + 1]) \notin {1, 2, 3}
    /\ i' = i + 1
    /\ LET reason == <<"delta_days=", ToString(DeltaDays(surgeries[i + 1]))>>
       IN  /\ notes' = Append(notes, SkipNote(reason, surgeries[i + 1]))
           /\ trace' = <<AppLog("SurgeryNotify SKIP", reason)>>
    /\ skipped' = skipped + 1
    /\ UNCHANGED <<probe, world, faults_left, requests_left, pc, slack, caches, force,
                   run_test, surgeries, should_send, sent, errors, response>>

\* lines 709-714, 746-758
SkipFlags ==
    /\ pc = "loop" /\ i < Len(surgeries)
    /\ DeltaDays(surgeries[i + 1]) \in {1, 2, 3}
    /\ \E sl \in StatusLists \ {<<>>} :
        LET day_key == DayKey(DeltaDays(surgeries[i + 1]))
            reason  == Reason(sl[1], day_key)
        IN  /\ ~ShouldSend(force, sl[1], day_key)
            /\ statuses' = sl
            /\ notes' = Append(notes, SkipNote(reason, surgeries[i + 1]))
            /\ trace' = <<AppLog("SurgeryNotify SKIP", reason)>>
    /\ should_send' = FALSE
    /\ i' = i + 1
    /\ skipped' = skipped + 1
    /\ UNCHANGED <<probe, world, faults_left, requests_left, pc, slack, caches, force,
                   run_test, surgeries, sent, errors, response>>

\* lines 709-728: the record is due
Due ==
    /\ pc = "loop" /\ i < Len(surgeries)
    /\ DeltaDays(surgeries[i + 1]) \in {1, 2, 3}
    /\ \E sl \in StatusLists \ {<<>>} :
        /\ ShouldSend(force, sl[1], DayKey(DeltaDays(surgeries[i + 1])))
        /\ statuses' = sl
    /\ should_send' = TRUE
    /\ i' = i + 1
    /\ trace' = <<>>
    /\ pc' = "dispatch"
    /\ UNCHANGED <<probe, world, faults_left, requests_left, slack, caches, force,
                   run_test, surgeries, counters, response>>

\* variant: an else clause that counts a record as sent only when a
\* message was posted for it
Counted_when_posted(r, o) ==
    /\ Leaves(r.st)
    /\ faults_left' = faults_left - Cardinality(o)
    /\ pc' = IF r.exc = "none" THEN "loop" ELSE "failed"
    /\ IF r.caught = "none"
       THEN IF r.st.n > 0
            THEN /\ sent' = sent + 1
                 /\ notes' = Append(notes, SentNote(surgeries[i],
                                            DeltaDays(surgeries[i]), force))
                 /\ UNCHANGED errors
            ELSE UNCHANGED <<sent, notes, errors>>
       ELSE /\ errors' = errors + 1
            /\ UNCHANGED <<sent, notes>>

\* variant: an except clause that counts nothing
Counted_sent_only(r, o) ==
    /\ Leaves(r.st)
    /\ faults_left' = faults_left - Cardinality(o)
    /\ pc' = IF r.exc = "none" THEN "loop" ELSE "failed"
    /\ IF r.caught = "none"
       THEN /\ sent' = sent + 1
            /\ notes' = Append(notes, SentNote(surgeries[i],
                                       DeltaDays(surgeries[i]), force))
            /\ UNCHANGED errors
       ELSE UNCHANGED <<sent, notes, errors>>

\* lines 736-745: the except clause counts an error, the else clause counts
\* and notes the record as sent
Counted(r, o) ==
    /\ Leaves(r.st)
    /\ faults_left' = faults_left - Cardinality(o)
    /\ pc' = IF r.exc = "none" THEN "loop" ELSE "failed"
    /\ IF r.caught = "none"
       THEN /\ sent' = sent + 1
            /\ notes' = Append(notes, SentNote(surgeries[i],
                                       DeltaDays(surgeries[i]), force))
            /\ UNCHANGED errors
       ELSE /\ errors' = errors + 1
            /\ UNCHANGED <<sent, notes>>

\* lines 728-745: the three destinations of a due record
Dispatch ==
    /\ pc = "dispatch"
    /\ \E o \in Oracles("send", {}, faults_left) :
        Counted(SendRun(Step, slack, o), o)
    /\ UNCHANGED <<probe, world, requests_left, slack, force, run_test, loopvars,
                   skipped, response>>

\* lines 769-783: the loop is exhausted, or the handler of the sweep is done
Summary ==
    /\ \/ pc = "loop" /\ i = Len(surgeries)
       \/ pc = "summary"
    /\ trace' = Append(trace, AppLog("SurgeryNotify SUMMARY", None))
    /\ response' = "summary"
    /\ pc' = "done"
    /\ UNCHANGED <<probe, world, faults_left, requests_left, slack, caches, force,
                   run_test, loopvars, counters>>

Next ==
    \/ StartRequest
    \/ TestMode
    \/ Fetch
    \/ JobFailed
    \/ SkipNoStatus
    \/ SkipDeltaDays
    \/ SkipFlags
    \/ Due
    \/ Dispatch
    \/ Summary

Spec == Init /\ [][Next]_vars

\* ------------------------------------------- the client called directly
\* The operations of SlackClient called one after the other on one client,
\* every failure of the Web API possible at every call: what each operation
\* answers, logs and calls, from every state its caches can be in.

\* settings for the client called directly: every kind of surgery
\* destination, each with one kind of shikigami destination
ClientEnvs ==
    {SlackEnvConfig(dry, pair[1], pair[2]) :
        dry \in BOOLEAN,
        pair \in {
          << [channel |-> <<"#", "s">>, manager |-> <<"@", "m">>, dm |-> TRUE],
             [channel |-> <<"#", "f">>, manager |-> <<"@", "K">>, dm |-> TRUE] >>,
          << [channel |-> <<"#", "z">>, manager |-> <<"@", "z">>, dm |-> TRUE],
             [channel |-> <<"#", "s">>, manager |-> <<"@", "m">>, dm |-> TRUE] >>,
          << [channel |-> None,         manager |-> None,         dm |-> TRUE],
             [channel |-> None,         manager |-> <<"U", "1">>, dm |-> TRUE] >>,
          << [channel |-> <<"C", "7">>, manager |-> <<"U", "2">>, dm |-> FALSE],
             [channel |-> <<"#", "f">>, manager |-> <<"@", "K">>, dm |-> TRUE] >> }}

ClientInit ==
    /\ environ \in ClientEnvs
    /\ store = <<>>
    /\ faults_left = 0
    /\ requests_left = MaxCalls
    /\ pc = "client"
    /\ slack = [self |-> 1, env |-> environ]
    /\ cc = <<>> /\ uc = <<>> /\ dc = <<>>
    /\ force = FALSE /\ run_test = FALSE
    /\ surgeries = <<>> /\ i = 0 /\ statuses = <<>> /\ should_send = FALSE
    /\ sent = 0 /\ skipped = 0 /\ errors = 0 /\ notes = <<>>
    /\ trace = <<>>
    /\ response = "none"
    /\ probe = NoCall

\* the state a direct call hands to the operation: the caches as they are,
\* no event yet
Fresh == [cc |-> cc, uc |-> uc, dc |-> dc, tr |-> <<>>, n |-> 0]

\* the labels the channel resolver is called with
ProbeLabels ==
    {None, <<"#">>, <<"#", "s">>, <<"#", "z">>,
     <<"C", "7">>, <<"D", "2">>, <<"G", "8">>, <<"U", "2">>}

\* the labels the user resolver is called with
ProbeUserLabels ==
    {None, <<"@">>, <<"@", "K">>, <<"@", "z">>, <<"C", "7">>, <<"U", "2">>}

ProbeTexts == {None, <<"text">>}

\* the Web API fails none of the first k calls of the operation, or one
ProbeOracles(k) ==
    {{}} \cup {{[at |-> p, how |-> h]} : p \in 1..k, h \in Outcomes \ {"ok"}}

\* the failures of o that fell on a call the operation made
Hit(o, n) == {f \in o : f.at <= n}

\* the operation has answered r
Returned(r, op, arg, text, ping, o) ==
    /\ requests_left' = requests_left - 1
    /\ Leaves(r.st)
    /\ probe' = [op |-> op, arg |-> arg, text |-> text, ping |-> ping,
                 val |-> r.val, exc |-> r.exc, n |-> r.st.n,
                 o |-> Hit(o, r.st.n)]
    /\ UNCHANGED <<world, faults_left, pc, slack, force, run_test, loopvars,
                   counters, response>>

CallResolveChannelId ==
    /\ pc = "client" /\ requests_left > 0
    /\ \E L \in ProbeLabels, o \in ProbeOracles(2) :
            Returned(resolve_channel_id(Fresh, slack.self, L, o),
                     "resolve_channel_id", L, None, FALSE, o)

CallResolveUserId ==
    /\ pc = "client" /\ requests_left > 0
    /\ \E L \in ProbeUserLabels, o \in ProbeOracles(2) :
            Returned(resolve_user_id(Fresh, slack.self, L, o),
                     "resolve_user_id", L, None, FALSE, o)

CallDmChannelFor ==
    /\ pc = "client" /\ requests_left > 0
    /\ \E L \in {None, <<"U", "1">>, <<"U", "2">>}, o \in ProbeOracles(1) :
            Returned(dm_channel_for(Fresh, slack.self, L, o),
                     "dm_channel_for", L, None, FALSE, o)

CallPost ==
    /\ pc = "client" /\ requests_left > 0
    /\ \E ch \in {None, <<"C", "1">>}, text \in ProbeTexts, o \in ProbeOracles(1) :
            Returned(_post(Fresh, slack.env, ch, text, <<"label">>, o),
                     "_post", ch, text, FALSE, o)

CallSendToSurgeryChannel ==
    /\ pc = "client" /\ requests_left > 0
    /\ \E ping \in BOOLEAN, o \in ProbeOracles(3) :
            Returned(send_to_surgery_channel(Fresh, slack, <<"text">>, ping, o),
                     "send_to_surgery_channel", None, <<"text">>, ping, o)

CallSendToShikigamiFeed ==
    /\ pc = "client" /\ requests_left > 0
    /\ \E ping \in BOOLEAN, o \in ProbeOracles(3) :
            Returned(send_to_shikigami_feed(Fresh, slack, <<"text">>, ping, o),
                     "send_to_shikigami_feed", None, <<"text">>, ping, o)

CallDmSurgeryManager ==
    /\ pc = "client" /\ requests_left > 0
    /\ \E o \in ProbeOracles(4) :
            Returned(dm_surgery_manager(Fresh, slack, <<"text">>, o),
                     "dm_surgery_manager", None, <<"text">>, FALSE, o)

CallDmShikigamiManager ==
    /\ pc = "client" /\ requests_left > 0
    /\ \E o \in ProbeOracles(4) :
            Returned(dm_shikigami_manager(Fresh, slack, <<"text">>, o),
                     "dm_shikigami_manager", None, <<"text">>, FALSE, o)

ClientNext ==
    \/ CallResolveChannelId
    \/ CallResolveUserId
    \/ CallDmChannelFor
    \/ CallPost
    \/ CallSendToSurgeryChannel
    \/ CallSendToShikigamiFeed
    \/ CallDmSurgeryManager
    \/ CallDmShikigamiManager

ClientSpec == ClientInit /\ [][ClientNext]_vars

\* -------------------------------------------------------------- properties
\* Record i of the sweep has been evaluated and nothing has happened since.
Evaluated == pc \in {"loop", "dispatch", "failed"} /\ i >= 1

Delta == Today - surgeries[i].date

\* the record has a status row and lies in the reminder window
Eligible == Evaluated /\ statuses # <<>> /\ Delta \in {1, 2, 3}

\* the day-bucket flag of the record, read off the status row
DayFlag(status, d) ==
    CASE d = 1 -> status.day_one
      [] d = 2 -> status.day_two
      [] d = 3 -> status.day_three

DayFlagText(d) ==
    CASE d = 1 -> "day_one=1" [] d = 2 -> "day_two=1" [] d = 3 -> "day_three=1"

GuardsUnset == statuses[1].euthanized = 0 /\ DayFlag(statuses[1], Delta) = 0

LastNote == notes[Len(notes)]

Range(q) == {q[k] : k \in 1..Len(q)}

OpEvent(op) == Ev("op", op, None, None, None, None)

\* the named destinations entered since the evaluation of the record began
Attempted == {e.name : e \in {x \in Range(trace) : x.ev = "op"}}

\* the try statement of record i has been entered: its first event is the
\* entry of the surgery channel's helper
Entered == trace # <<>> /\ trace[1] = OpEvent("send_to_surgery_channel")

\* the try statement of record i has ended
Dispatched == Evaluated /\ pc # "dispatch" /\ Entered

\* the except clause of record i has run
CaughtBy(exc) == AppLog("SurgeryNotify ERROR", <<exc>>) \in Range(trace)

CaughtAny == CaughtBy("SlackApiError") \/ CaughtBy("Exception")

\* the handler of the sweep has run
JobFailedSeen == AppLog("job failed", <<"Exception">>) \in Range(trace)

NotesOf(kind) == {k \in 1..Len(notes) : notes[k].kind = kind}

\* record i was skipped: one log line, no destination entered, no call made,
\* a skip note for the record, the skip counted
SkippedNow ==
    /\ pc = "loop"
    /\ notes # <<>>
    /\ LastNote.kind = "skip"
    /\ LastNote.animal_id = surgeries[i].animal_id
    /\ trace = <<AppLog("SurgeryNotify SKIP", LastNote.reason)>>
    /\ skipped = Cardinality(NotesOf("skip"))
    /\ sent = Cardinality(NotesOf("sent"))

\* record i is being dispatched or has been
DispatchedNow ==
    /\ should_send
    /\ pc = "dispatch" \/ Entered
    /\ notes # <<>> /\ LastNote.kind = "skip" => LastNote.animal_id # surgeries[i].animal_id

ThreeDestinations ==
    {"send_to_surgery_channel", "dm_surgery_manager", "send_to_shikigami_feed"}

\* C1: within one due record, a destination whose delivery raises a service
\* error does not keep the remaining destinations of the record from being
\* attempted: once the try statement has ended with a service error caught,
\* all three destinations have been entered.
C1_DestinationsIsolated ==
    (Dispatched /\ CaughtBy("SlackApiError")) => ThreeDestinations \subseteq Attempted

\* C2: a delivery failure on record i never keeps record i+1 from being
\* evaluated: after the except clause of a record the loop goes on, and as
\* long as the store answers, every record evaluated so far has exactly one
\* outcome (sent, skipped or error), up to the last record of the list.
C2_SweepGoesOn ==
    /\ (Dispatched /\ CaughtAny) => pc = "loop"
    /\ (pc \in {"loop", "dispatch"} /\ ~JobFailedSeen) =>
           sent + skipped + errors = i - (IF pc = "dispatch" THEN 1 ELSE 0)
    /\ (pc = "done" /\ response = "summary" /\ ~JobFailedSeen) =>
           /\ i = Len(surgeries)
           /\ sent + skipped + errors = Len(surgeries)

\* the first record of two failed in delivery and the second has its outcome
C2_Witness ==
    /\ pc = "done" /\ response = "summary" /\ ~JobFailedSeen
    /\ Len(surgeries) = 2 /\ errors = 1
    /\ Len(notes) = 1 /\ LastNote.animal_id = surgeries[2].animal_id

IsCallOf(e, api) == e.ev = "call" /\ e.name = api

IsLog(e, phase) == e.ev = "slack" /\ e.name = phase

DestinationIds == {<<"C", "1">>, <<"D", "2">>, <<"G", "8">>}

\* C3: under dry-run no chat_postMessage call is ever issued, every PLAN
\* record is directly followed by the DRY-RUN record of the same send, and
\* a send that reaches the sender with a destination id and a text emits
\* exactly that pair and makes no call, whatever the service would answer.
C3_DryRun ==
    environ.notify_dry_run =>
        /\ \A e \in Range(trace) : ~IsCallOf(e, "chat_postMessage")
        /\ \A k \in 1..Len(trace) :
              IsLog(trace[k], "PLAN") =>
                  /\ k < Len(trace)
                  /\ trace[k + 1] = [trace[k] EXCEPT !.name = "DRY-RUN"]
        /\ \A k \in 1..Len(trace) :
              IsLog(trace[k], "DRY-RUN") => k > 1 /\ IsLog(trace[k - 1], "PLAN")
        /\ \A ch \in DestinationIds, how \in Outcomes \ {"ok"} :
              LET r == _post(Step, slack.env, ch, <<"text">>, <<"label">>,
                             {[at |-> 1, how |-> how]})
              IN  /\ r.exc = "none"
                  /\ r.st.n = 0
                  /\ r.st.tr = trace \o
                        <<_emit_log("PLAN", <<"label">>, <<"text">>, ch, None),
                          _emit_log("DRY-RUN", <<"label">>, <<"text">>, ch, None)>>

\* a due record went to its three destinations under dry-run
C3_Witness ==
    /\ environ.notify_dry_run
    /\ Dispatched /\ sent = 1
    /\ Cardinality({k \in 1..Len(trace) : IsLog(trace[k], "DRY-RUN")}) = 3

\* C4: a record with a status row and delta_days in {1,2,3} is dispatched
\* if and only if force is set, or neither its euthanized flag nor the flag
\* of its day is set; otherwise it is counted as skipped and nothing is
\* dispatched for it.
C4_Decision ==
    Eligible => IF force \/ GuardsUnset THEN DispatchedNow ELSE SkippedNow

\* one sweep without force that sent one record and skipped another for its
\* flags
C4_Witness ==
    /\ Eligible /\ ~force /\ pc = "loop"
    /\ sent = 1 /\ skipped = 1 /\ Len(notes) = 2
    /\ notes[1].kind = "sent" /\ notes[2].reason = <<"euthanized=1">>

\* C5: without force, a record whose flag of today's day bucket is set is
\* skipped in every sweep, the first and any later one: its evaluation
\* leaves sent as it is, counts a skip, notes the flag as the reason and
\* enters no destination.
C5_Idempotent ==
    [][ ( /\ pc = "loop" /\ i' = i + 1 /\ ~force
          /\ statuses' # <<>>
          /\ Today - surgeries[i + 1].date \in {1, 2, 3}
          /\ DayFlag(statuses'[1], Today - surgeries[i + 1].date) # 0 )
        => ( /\ sent' = sent /\ errors' = errors
             /\ skipped' = skipped + 1
             /\ pc' = "loop"
             /\ notes' # <<>>
             /\ notes'[Len(notes')].kind = "skip"
             /\ notes'[Len(notes')].animal_id = surgeries[i + 1].animal_id
             /\ DayFlagText(Today - surgeries[i + 1].date)
                    \in Range(notes'[Len(notes')].reason)
             /\ trace' = <<AppLog("SurgeryNotify SKIP", notes'[Len(notes')].reason)>> )
      ]_vars

\* the second sweep of a behaviour, after a first one that dispatched, skips
\* yesterday's record for its day_one flag
C5_Witness ==
    /\ slack.self = 2 /\ ~force
    /\ CacheHas(cc, CacheKey(1, <<"#", "s">>))
    /\ Eligible /\ pc = "loop" /\ Delta = 1 /\ statuses[1].day_one = 1
    /\ sent = 0 /\ skipped = 1 /\ LastNote.reason = <<"day_one=1">>

DeltaReason == <<"delta_days=", ToString(Delta)>>

C7_NoStatus ==
    (Evaluated /\ statuses = <<>> /\ Delta \in {1, 2, 3}) =>
        /\ SkippedNow
        /\ LastNote.reason = <<"no_status">>
        /\ ~JobFailedSeen => sent + skipped + errors = i

\* a forced sweep skips a record of the window that has no status row, and
\* goes on to the next record
C7_Witness ==
    /\ Evaluated /\ force /\ statuses = <<>> /\ Delta \in {1, 2, 3}
    /\ i = 2 /\ skipped = 2 /\ notes[1].reason = <<"no_status">>
    /\ LastNote.reason = <<"no_status">>

ForcedNote ==
    [kind |-> "sent", reason |-> <<>>, animal_id |-> surgeries[i].animal_id,
     day |-> Delta, suffix |-> <<"(forced)">>]

\* C8: under force every record with a status row and delta_days in
\* {1,2,3} is dispatched whatever its flags; when no destination raised,
\* its note is a sent note that carries the (forced) suffix.
C8_Force ==
    (Eligible /\ force) =>
        /\ DispatchedNow
        /\ (Dispatched /\ ~CaughtAny) => notes # <<>> /\ LastNote = ForcedNote

\* a forced sweep dispatched a euthanized record whose day flag is set too
C8_Witness ==
    /\ Eligible /\ force /\ Dispatched /\ ~CaughtAny
    /\ statuses[1].euthanized = 1 /\ DayFlag(statuses[1], Delta) = 1
    /\ sent = 1 /\ LastNote = ForcedNote

\* a record was dispatched and noted as sent
NotedSent ==
    /\ Eligible /\ Dispatched /\ ~CaughtAny
    /\ notes # <<>> /\ LastNote.kind = "sent"
    /\ LastNote.animal_id = surgeries[i].animal_id

\* C9 as stated: the sent note carries the (forced) suffix when force
\* decided the send, that is when force is set and the flags alone would
\* have suppressed it; a record that would have been sent without force is
\* noted without the suffix.
C9_SuffixWhenDeciding ==
    NotedSent => (LastNote.suffix = <<"(forced)">> <=> (force /\ ~GuardsUnset))

\* C9: the sent note carries the (forced) suffix exactly when the request
\* set force, whether or not the flags would have suppressed the send.
C9_SuffixWhenForced ==
    (Dispatched /\ Eligible /\ ~CaughtAny) =>
        /\ NotedSent
        /\ LastNote.day = Delta
        /\ LastNote.suffix = IF force THEN <<"(forced)">> ELSE <<>>

\* a forced sweep sent a record that no flag held back: the note has the
\* suffix
C9_Witness ==
    /\ NotedSent /\ force /\ GuardsUnset
    /\ LastNote.suffix = <<"(forced)">>

\* the labels the settings name
ChannelLabels == {environ.surgery_channel, environ.shikigami_channel}

UserLabels == {environ.surgery_manager, environ.shikigami_manager}

UserIds == {<<"U", "1">>, <<"U", "2">>}

\* the service rejects the n-th call, or no call
Rejections == {{}} \cup {{[at |-> n, how |-> "SlackApiError"]} : n \in 1..2}

\* the service fails every call
AllFail == {[at |-> n, how |-> "Exception"] : n \in 1..4}

\* r2 answers what r1 answered and has made no call and left no event
SameAgain(r1, r2) ==
    /\ r2.exc = "none"
    /\ r2.val = r1.val
    /\ r2.st.n = r1.st.n
    /\ r2.st.tr = r1.st.tr

\* C10: from every state of the caches the program reaches, a lookup of a
\* label (channel, user, or direct-message conversation of a user id) that
\* returned is answered again from the cache: the second lookup by the same
\* client makes no call and answers the same, also when the first answer
\* was None (not found, or rejected by the service).
C10_CacheHit ==
    /\ \A L \in ChannelLabels, o \in Rejections :
          LET r1 == resolve_channel_id(Step, slack.self, L, o)
          IN  r1.exc = "none" /\
              SameAgain(r1, resolve_channel_id(r1.st, slack.self, L, AllFail))
    /\ \A L \in UserLabels, o \in Rejections :
          LET r1 == resolve_user_id(Step, slack.self, L, o)
          IN  r1.exc = "none" /\
              SameAgain(r1, resolve_user_id(r1.st, slack.self, L, AllFail))
    /\ \A L \in UserIds, o \in Rejections :
          LET r1 == dm_channel_for(Step, slack.self, L, o)
          IN  r1.exc = "none" /\
              SameAgain(r1, dm_channel_for(r1.st, slack.self, L, AllFail))

\* in one record the surgery channel's lookup was rejected and its None
\* kept; the feed, configured with the same label, was answered from the
\* cache: no second conversations_list call, the feed skipped at once
C10_Witness ==
    /\ Dispatched
    /\ environ.surgery_channel = environ.shikigami_channel
    /\ CacheHas(cc, CacheKey(slack.self, environ.surgery_channel))
    /\ CacheVal(cc, CacheKey(slack.self, environ.surgery_channel)) = None
    /\ Cardinality({k \in 1..Len(trace) :
                       IsCallOf(trace[k], "conversations_list")}) = 1
    /\ \E k \in 1..(Len(trace) - 1) :
          /\ trace[k] = OpEvent("send_to_shikigami_feed")
          /\ IsLog(trace[k + 1], "SKIP")

\* ------------------------------------- properties of the client's operations
\* the last direct call was of operation op
Probed(op) == pc = "client" /\ probe.op = op

TypeTags == {"C", "D", "G", "U"}

Tagged(label) == label # None /\ Head(label) \in TypeTags

\* the calls of the Web API the last operation made
CallsMade == {k \in 1..Len(trace) : trace[k].ev = "call"}

CallsTo(api) == {k \in 1..Len(trace) : IsCallOf(trace[k], api)}

\* the records the last operation logged in phase
Logged(phase) == {k \in 1..Len(trace) : IsLog(trace[k], phase)}

\* the operation answered its argument and called nothing
Verbatim ==
    /\ probe.exc = "none"
    /\ probe.val = probe.arg
    /\ probe.n = 0
    /\ CallsMade = {}

\* C11 as stated: channel resolve and user resolve both answer a label that
\* starts with C, D, G or U verbatim and issue no conversations_list or
\* users_list call.
C11_LiteralPassthrough ==
    (/\ Probed("resolve_channel_id") \/ Probed("resolve_user_id")
     /\ Tagged(probe.arg))
    => Verbatim

\* C11 amended: channel resolve answers a label that starts with C, D, G or
\* U verbatim and issues no call; user resolve does so only for a label that
\* starts with U, and a label that starts with C, D or G is looked up by
\* name like any other: every call it issues is a users_list call.
C11_LiteralPassthroughByKind ==
    /\ (Probed("resolve_channel_id") /\ Tagged(probe.arg)) => Verbatim
    /\ (Probed("resolve_user_id") /\ startswith(probe.arg, "U")) => Verbatim
    /\ (Probed("resolve_user_id") /\ Tagged(probe.arg)
            /\ ~startswith(probe.arg, "U"))
       => CallsMade = CallsTo("users_list")

\* both resolvers have answered an identifier verbatim: the user resolver
\* a label that starts with U, while the channel cache holds a label that
\* starts with C, answered verbatim before
C11_Witness ==
    /\ Probed("resolve_user_id")
    /\ probe.arg = <<"U", "2">>
    /\ Verbatim
    /\ CacheHas(cc, CacheKey(slack.self, <<"C", "7">>))
    /\ CacheVal(cc, CacheKey(slack.self, <<"C", "7">>)) = <<"C", "7">>

ResolverOps == {"resolve_channel_id", "resolve_user_id", "dm_channel_for"}

DestinationOps ==
    {"send_to_surgery_channel", "send_to_shikigami_feed",
     "dm_surgery_manager", "dm_shikigami_manager"}

LastEvent == trace[Len(trace)]

\* the Web API failed a call of the last operation
Failed == probe.o # {}

\* the label the failing lookup was about, as the ERROR record names it
AttemptedLabel ==
    CASE probe.op = "resolve_channel_id" -> <<"#">> \o lstrip(probe.arg, "#")
      [] probe.op = "resolve_user_id"    -> <<"user:">> \o lstrip(probe.arg, "@")
      [] OTHER                           -> <<"dm:">> \o probe.arg

\* C12: when the Web API fails a call (transport error or rejection by the
\* service) during a resolve scan or during conversations_open, the
\* operation stops at that call, logs one ERROR record naming the attempted
\* label and returns None, no exception reaching the caller; a named
\* destination whose lookup failed so ends with a SKIP record.
C12_FailureRecovered ==
    /\ (pc = "client" /\ probe.op \in ResolverOps /\ Failed)
       => /\ probe.exc = "none"
          /\ probe.val = None
          /\ Cardinality(Logged("ERROR")) = 1
          /\ IsLog(LastEvent, "ERROR")
          /\ LastEvent.target = AttemptedLabel
          /\ trace[Len(trace) - 1].ev = "call"
    /\ (pc = "client" /\ probe.op \in DestinationOps /\ Failed
            /\ CallsTo("chat_postMessage") = {})
       => /\ probe.exc = "none"
          /\ IsLog(LastEvent, "SKIP")

\* what the Web API did with the call at position k of the trace
OutcomeAt(k) == OutcomeOf(probe.o, Cardinality({j \in CallsMade : j <= k}))

\* the call at position k follows the PLAN record of its target
Planned(k) ==
    /\ k > 1
    /\ IsLog(trace[k - 1], "PLAN")
    /\ trace[k - 1].resolved = trace[k].target

\* the call at position k is followed by the record phase of the planned
\* target and by nothing else
Outcome(k, phase) ==
    /\ Len(trace) = k + 1
    /\ IsLog(trace[k + 1], phase)
    /\ trace[k + 1].target = trace[k - 1].target
    /\ trace[k + 1].resolved = trace[k].target

SkippedFor(reason) ==
    /\ probe.exc = "none"
    /\ Len(trace) = 1
    /\ IsLog(trace[1], "SKIP")
    /\ trace[1].extra = reason

\* C14: the sender handed an empty destination id or an empty text logs one
\* SKIP record with reason "missing channel or text", makes no call of the
\* Web API and returns, with the dry-run setting on and off.
C14_MissingChannelOrText ==
    (Probed("_post") /\ (probe.arg = None \/ probe.text = None))
    => /\ SkippedFor(<<"missing channel or text">>)
       /\ probe.n = 0
       /\ CallsMade = {}

\* a live sender was handed a channel and no text: skipped, nothing called
C14_Witness ==
    /\ Probed("_post")
    /\ ~environ.notify_dry_run
    /\ probe.arg = <<"C", "1">> /\ probe.text = None
    /\ SkippedFor(<<"missing channel or text">>)
    /\ probe.o = {}

ChannelOps == {"send_to_surgery_channel", "send_to_shikigami_feed"}

\* the label the settings give the channel destination op
ChannelOf(op) ==
    IF op = "send_to_surgery_channel" THEN environ.surgery_channel
    ELSE environ.shikigami_channel

\* the sender was called: it logs PLAN or its own SKIP first
SenderCalled ==
    \E k \in 1..Len(trace) :
        \/ IsLog(trace[k], "PLAN")
        \/ IsLog(trace[k], "SKIP") /\ trace[k].extra = <<"missing channel or text">>

\* the destination ended with the SKIP record for reason after its entry
\* and the calls of the lookup, the sender not called
EndedSkipped(reason) ==
    /\ probe.exc = "none"
    /\ IsLog(LastEvent, "SKIP")
    /\ LastEvent.extra = reason
    /\ LastEvent.resolved = None
    /\ Cardinality(Logged("SKIP")) = 1
    /\ ~SenderCalled
    /\ CallsTo("chat_postMessage") = {}

\* the channel resolver has answered v for the label of the destination
ChannelResolvedTo(op, v) ==
    /\ CacheHas(cc, CacheKey(slack.self, ChannelOf(op)))
    /\ CacheVal(cc, CacheKey(slack.self, ChannelOf(op))) = v

\* C15: a channel destination whose label is unset logs SKIP "channel not
\* resolvable" and calls neither the resolver (the channel cache is left
\* as it was) nor the Web API; one whose label is set and resolves to None
\* logs SKIP "channel not resolvable" and does not call the sender; the
\* sender is called exactly when the resolver answered an identifier, and
\* with that identifier.
C15_ChannelDestination ==
    /\ \A op \in ChannelOps :
          (Probed(op) /\ ChannelOf(op) = None)
          => /\ EndedSkipped(<<"channel not resolvable">>)
             /\ trace = <<OpEvent(op), LastEvent>>
             /\ probe.n = 0
    /\ \A ping \in BOOLEAN, o \in ProbeOracles(1) :
          /\ environ.surgery_channel = None
             => send_to_surgery_channel(Fresh, slack, <<"text">>, ping, o).st.cc = cc
          /\ environ.shikigami_channel = None
             => send_to_shikigami_feed(Fresh, slack, <<"text">>, ping, o).st.cc = cc
    /\ \A op \in ChannelOps :
          (Probed(op) /\ ChannelOf(op) # None /\ ChannelResolvedTo(op, None))
          => /\ EndedSkipped(<<"channel not resolvable">>)
             /\ LastEvent.target = ChannelOf(op)
    /\ \A op \in ChannelOps :
          Probed(op)
          => (SenderCalled
              <=> \E v \in {<<"C", "1">>, <<"C", "2">>, <<"C", "7">>} :
                     /\ ChannelOf(op) # None
                     /\ ChannelResolvedTo(op, v)
                     /\ \E k \in Logged("PLAN") : trace[k].resolved = v)

\* the surgery channel is set to a name no channel has: two pages listed,
\* None answered and kept, the destination skipped
C15_Witness ==
    /\ Probed("send_to_surgery_channel")
    /\ environ.surgery_channel = <<"#", "z">>
    /\ ChannelResolvedTo("send_to_surgery_channel", None)
    /\ Cardinality(CallsTo("conversations_list")) = 2
    /\ EndedSkipped(<<"channel not resolvable">>)

DmOps == {"dm_surgery_manager", "dm_shikigami_manager"}

EnabledOf(op) ==
    IF op = "dm_surgery_manager" THEN environ.surgery_manager_dm
    ELSE environ.shikigami_manager_dm

WhoLabelOf(op) ==
    IF op = "dm_surgery_manager" THEN "SLACK_SURGERY_MANAGER"
    ELSE "SLACK_SHIKIGAMI_MANAGER"

WhoValueOf(op) ==
    IF op = "dm_surgery_manager" THEN environ.surgery_manager
    ELSE environ.shikigami_manager

\* the user resolver has answered v for the person of the destination
UserResolvedTo(op, v) ==
    /\ CacheHas(uc, CacheKey(slack.self, WhoValueOf(op)))
    /\ CacheVal(uc, CacheKey(slack.self, WhoValueOf(op))) = v

\* dm_channel_for has answered d for the user u
DmOpenedTo(u, d) ==
    /\ CacheHas(dc, CacheKey(slack.self, u))
    /\ CacheVal(dc, CacheKey(slack.self, u)) = d

\* every event of the first kind comes before every event of the second
Before(first, second) == \A a \in first, b \in second : a < b

\* C16: a direct-message destination whose DM setting is false, or whose
\* person is unset, logs one SKIP and calls nothing; otherwise it resolves
\* the user, then opens the conversation, then sends, in that order, and
\* the first of the lookups that answers None ends it with a SKIP, the
\* later steps not executed; the sender is called exactly when both
\* lookups answered an identifier.
C16_DmDestination ==
    \A op \in DmOps :
        Probed(op) =>
            /\ ~EnabledOf(op)
               => /\ trace = <<OpEvent(op), LastEvent>>
                  /\ EndedSkipped(<<WhoLabelOf(op), "_DM=false">>)
                  /\ probe.n = 0 /\ CallsMade = {}
            /\ (EnabledOf(op) /\ WhoValueOf(op) = None)
               => /\ trace = <<OpEvent(op), LastEvent>>
                  /\ EndedSkipped(<<"unset:", WhoLabelOf(op)>>)
                  /\ probe.n = 0 /\ CallsMade = {}
            /\ Before(CallsTo("users_list"), CallsTo("conversations_open"))
            /\ Before(CallsTo("conversations_open"), Logged("PLAN"))
            /\ Before(CallsTo("users_list"), Logged("PLAN"))
            /\ Before(Logged("PLAN"), CallsTo("chat_postMessage"))
            /\ (EnabledOf(op) /\ WhoValueOf(op) # None /\ UserResolvedTo(op, None))
               => /\ EndedSkipped(<<WhoLabelOf(op), "not resolvable">>)
                  /\ CallsTo("conversations_open") = {}
            /\ \A u \in UserIds :
                  (EnabledOf(op) /\ UserResolvedTo(op, u) /\ DmOpenedTo(u, None))
                  => EndedSkipped(<<"could not open DM">>)
            /\ SenderCalled
               <=> \E u \in UserIds :
                      /\ EnabledOf(op)
                      /\ UserResolvedTo(op, u)
                      /\ DmOpenedTo(u, DmIdOf(u))
                      /\ \E k \in Logged("PLAN") : trace[k].resolved = DmIdOf(u)

\* the shikigami manager, named by real name, was found on the second page
\* of users, the conversation opened and the message sent: four calls in
\* the order of the steps
C16_Witness ==
    /\ Probed("dm_shikigami_manager")
    /\ environ.shikigami_manager = <<"@", "K">>
    /\ ~environ.notify_dry_run
    /\ probe.n = 4
    /\ Cardinality(CallsTo("users_list")) = 2
    /\ Cardinality(CallsTo("conversations_open")) = 1
    /\ Cardinality(CallsTo("chat_postMessage")) = 1
    /\ IsLog(LastEvent, "SENT")

\* ---------------------------------------------- properties of the sweep
\* a sweep is under way
Sweeping == ~run_test /\ pc \notin {"idle", "done"}

JobFailedLog == AppLog("job failed", <<"Exception">>)

SummaryLog == AppLog("SurgeryNotify SUMMARY", None)

\* what is left of the sweep: the records not yet evaluated, and the
\* statements after the loop
Rank ==
    CASE pc = "fetch"    -> 3 * Len(store) + 5
      [] pc = "loop"     -> 3 * (Len(store) - i) + 3
      [] pc = "dispatch" -> 3 * (Len(store) - i) + 4
      [] pc = "failed"   -> 2
      [] pc = "summary"  -> 1
      [] OTHER           -> 0

\* the handler of the sweep ran after the job failed: the error counted,
\* the failure logged, the audit feed tried next, the loop left
Recovered ==
    /\ errors >= 1
    /\ pc \in {"summary", "done"}
    /\ \E k \in 1..(Len(trace) - 1) :
          /\ trace[k] = JobFailedLog
          /\ trace[k + 1] = OpEvent("send_to_shikigami_feed")

\* the sweep can take its next step: the rows are fetched, the next record
\* is evaluated or the loop is left, the summary is written; the dispatch
\* of a due record has no condition but the record (the Web API may always
\* fail nothing); and no exception has left the try statement of a record
CanStep ==
    CASE pc = "dispatch" -> should_send /\ i \in 1..Len(surgeries)
      [] pc = "failed"   -> FALSE
      [] OTHER           -> ENABLED (Fetch \/ SkipNoStatus \/ Summary)

C17_Returns ==
    /\ response # "unhandled"
    /\ (pc = "done" /\ ~run_test)
       => /\ response = "summary"
          /\ trace # <<>> /\ LastEvent = SummaryLog
    /\ (~run_test /\ JobFailedSeen) => Recovered
    /\ Sweeping => CanStep

C17_Advances == Sweeping => Rank' < Rank

\* C17: a sweep (no test mode) never leaves an exception to its caller and
\* is never stuck; every step brings it nearer to its end, and it ends by
\* logging the summary line and returning the summary; when the store
\* raises, the handler of the sweep counts an error, logs the failure and
\* tries the audit feed, and what the escalation raises is swallowed.
C17_SweepReturns == [][C17_Advances /\ C17_Returns']_vars

\* the store raised, the escalation's post to the audit feed was rejected
\* and the exception swallowed (the manager not tried), and the sweep
\* still logged its summary and returned it, one error counted
C17_Witness ==
    /\ pc = "done" /\ ~run_test
    /\ response = "summary"
    /\ errors = 1
    /\ JobFailedSeen
    /\ Logged("ERROR") # {}
    /\ "dm_shikigami_manager" \notin Attempted
    /\ LastEvent = SummaryLog

\* the body of the response carries the dry_run field: the responses of
\* lines 653-658 and 774-783 do, the error response of line 666 does not
ReportsDryRun(resp) == resp \in {"test_ok", "summary"}

\* how often the destination op was entered
TimesEntered(op) == Cardinality({k \in 1..Len(trace) : trace[k] = OpEvent(op)})

\* C18: a request in test mode offers exactly one message to each of the
\* three destinations (surgery channel, surgery manager, audit feed), reads
\* and evaluates no record, leaves the counters and the notes untouched,
\* and reports the dry-run setting in its response.
C18_TestMode ==
    (pc = "done" /\ run_test)
    => /\ \A op \in ThreeDestinations : TimesEntered(op) = 1
       /\ surgeries = <<>> /\ i = 0 /\ statuses = <<>>
       /\ sent = 0 /\ skipped = 0 /\ errors = 0 /\ notes = <<>>
       /\ ReportsDryRun(response)

\* where the destination op was entered (0: it was not)
EntryOf(op) ==
    IF TimesEntered(op) = 0 THEN 0
    ELSE CHOOSE k \in 1..Len(trace) : trace[k] = OpEvent(op)

\* the events of the destination op: those after its entry, up to the next
\* entry or log line of the view
SegmentFrom(e) ==
    {k \in (e + 1)..Len(trace) :
        \A j \in (e + 1)..k : trace[j].ev \in {"slack", "call"}}

SegmentOf(op) == SegmentFrom(EntryOf(op))

\* the outcome of a destination entered at e whose events are those of seg
OutcomeIn(e, seg) ==
    IF e = 0 THEN "none"
    ELSE IF \E k \in seg : IsLog(trace[k], "SENT") \/ IsLog(trace[k], "DRY-RUN")
    THEN "Sent"
    ELSE IF \E k \in seg : IsLog(trace[k], "SKIP") /\ \A j \in seg : j <= k
    THEN "Skipped"
    ELSE "Error"

\* the dispatch outcome of the pair (record i, destination op)
DispatchOutcome(op) == OutcomeIn(EntryOf(op), SegmentOf(op))

\* C19: when the first record of a sweep has been dispatched, each of its
\* three (record, destination) pairs has an outcome, and errors is the
\* number of the pairs whose delivery failed: up to 3 for one record.
C19_ErrorsPerDestination ==
    (Dispatched /\ pc = "loop" /\ i = 1)
    => /\ \A op \in ThreeDestinations : DispatchOutcome(op) # "none"
       /\ errors = Cardinality({op \in ThreeDestinations :
                                    DispatchOutcome(op) = "Error"})

\* the reason the claim expects for the record just evaluated: the guards
\* that are set, read off the status row
ExpectedReason ==
    CASE statuses[1].euthanized = 1 /\ DayFlag(statuses[1], Delta) = 1 ->
             <<"euthanized=1", "and", DayFlagText(Delta)>>
      [] statuses[1].euthanized = 1 /\ DayFlag(statuses[1], Delta) = 0 ->
             <<"euthanized=1">>
      [] statuses[1].euthanized = 0 /\ DayFlag(statuses[1], Delta) = 1 ->
             <<DayFlagText(Delta)>>
      [] OTHER -> <<"no guard triggered">>

\* C20: a record with a status row and delta_days in {1,2,3} that is
\* skipped (should_send false) is noted and logged with the reason that
\* lists exactly the guards set: "euthanized=1" iff the euthanized flag is
\* set, "<day_key>=1" iff the flag of its day is set, joined by "and"; no
\* note of any sweep carries the reason "unknown_reason".
C20_SkipReason ==
    /\ (SkippedNow /\ Eligible)
       => /\ ~should_send /\ ~force
          /\ LastNote.reason = ExpectedReason
          /\ trace = <<AppLog("SurgeryNotify SKIP", ExpectedReason)>>
    /\ \A k \in 1..Len(notes) : notes[k].reason # <<"unknown_reason">>
    /\ \A k \in 1..Len(trace) :
          trace[k].ev = "app" => trace[k].extra # <<"unknown_reason">>

\* a record two days old, euthanized and with the flag of day two set, was
\* skipped: both guards are listed
C20_Witness ==
    /\ SkippedNow /\ Eligible
    /\ Delta = 2
    /\ statuses[1].euthanized = 1 /\ statuses[1].day_two = 1
    /\ LastNote.reason = <<"euthanized=1", "and", "day_two=1">>

\* ------------------------------------------ properties of the resolve scan
ScanOps == {"resolve_channel_id", "resolve_user_id"}

ListApiOf(op) ==
    IF op = "resolve_channel_id" THEN "conversations_list" ELSE "users_list"

PagesOf(op) == IF op = "resolve_channel_id" THEN ChannelPages ELSE UserPages

\* the name the scan of the last call looks for
NeedleOf(op) ==
    IF op = "resolve_channel_id" THEN lstrip(probe.arg, "#")
    ELSE lstrip(probe.arg, "@")

\* the number of the page the call at position k of the trace asked for
PageAsked(op, k) ==
    IF trace[k].target = None THEN 1
    ELSE CHOOSE p \in 1..Len(PagesOf(op)) : CursorArg(p) = trace[k].target

\* the page has an entry the scan takes for the name
PageMatches(op, p) ==
    IF op = "resolve_channel_id"
    THEN ChannelMatches(ChannelPages[p], NeedleOf(op)) # {}
    ELSE UserMatches(UserPages[p], NeedleOf(op)) # {}

\* the position in the trace of the n-th call
CallAt(n) ==
    CHOOSE k \in CallsMade : Cardinality({j \in CallsMade : j <= k}) = n

\* C21: a resolve scan asks for one page at a time: the first call carries
\* no cursor, every later call the cursor the page before it returned; no
\* page is asked for twice; a page with a match is the last one asked for;
\* a scan that no call failed and that answers None has ended on a page
\* with an empty cursor.  So there is at most one call per page.
C21_Pagination ==
    \A op \in ScanOps :
        Probed(op) =>
            /\ CallsMade = CallsTo(ListApiOf(op))
            /\ probe.n = Cardinality(CallsMade)
            /\ probe.n <= Len(PagesOf(op))
            /\ probe.n >= 1 => trace[CallAt(1)].target = None
            /\ \A n \in 2..probe.n :
                  /\ PagesOf(op)[PageAsked(op, CallAt(n - 1))].next_cursor # 0
                  /\ trace[CallAt(n)].target =
                        CursorArg(PagesOf(op)[PageAsked(op, CallAt(n - 1))].next_cursor)
                  /\ ~PageMatches(op, PageAsked(op, CallAt(n - 1)))
            /\ \A n, m \in 1..probe.n :
                  PageAsked(op, CallAt(n)) = PageAsked(op, CallAt(m)) => n = m
            /\ (probe.n >= 1 /\ ~Failed)
               => LET last == PageAsked(op, CallAt(probe.n))
                  IN  IF PageMatches(op, last)
                      THEN probe.val # None
                      ELSE /\ probe.val = None
                           /\ PagesOf(op)[last].next_cursor = 0

\* the user resolver looked for a name no member has: it asked for the
\* first page, then for the second with the cursor of the first, found the
\* cursor empty and answered None
C21_Witness ==
    /\ Probed("resolve_user_id")
    /\ probe.arg = <<"@", "z">>
    /\ ~Failed
    /\ probe.n = 2
    /\ trace = <<Call("users_list", None), Call("users_list", CursorArg(2))>>
    /\ probe.val = None

\* the entries of the directory in the order a scan reads them
ChannelEntries == ChannelPages[1].channels \o ChannelPages[2].channels

UserEntries == UserPages[1].members \o UserPages[2].members

\* the names a member has: a field that is missing or empty is no name
NamesOf(u) == {u.name, u.display_name, u.real_name} \ {None}

\* entry k is the first channel named needle
FirstChannelNamed(k, needle) ==
    /\ ChannelEntries[k].name = needle
    /\ \A j \in 1..(k - 1) : ChannelEntries[j].name # needle

\* entry k is the first member in service one of whose names is needle
FirstUserNamed(k, needle) ==
    /\ ~UserEntries[k].deleted
    /\ needle \in NamesOf(UserEntries[k])
    /\ \A j \in 1..(k - 1) :
          UserEntries[j].deleted \/ needle \notin NamesOf(UserEntries[j])

\* C22: an identifier a resolver answers for a label that is not passed
\* through is the identifier of the first entry of the directory that
\* matches the label without its leading sigil: the channel of that name,
\* or the member one of whose names (name, display name, real name) it is.
\* No identifier is answered for an entry that has no such name, also for
\* the labels "#" and "@".
C22_ExactMatch ==
    /\ (Probed("resolve_channel_id") /\ ~Tagged(probe.arg) /\ probe.val # None)
       => \E k \in 1..Len(ChannelEntries) :
             /\ FirstChannelNamed(k, NeedleOf("resolve_channel_id"))
             /\ probe.val = ChannelEntries[k].id
    /\ (Probed("resolve_user_id") /\ ~startswith(probe.arg, "U")
            /\ probe.val # None)
       => \E k \in 1..Len(UserEntries) :
             /\ FirstUserNamed(k, NeedleOf("resolve_user_id"))
             /\ probe.val = UserEntries[k].id

\* ---------------------------------------------- the counters of the sweep
Total == sent + skipped + errors

\* the counters at the points of the sweep: every record evaluated so far
\* has been counted once, the one being dispatched not yet; the handler of
\* the sweep adds one
Accounted ==
    ~run_test =>
        CASE pc = "fetch"    -> Total = 0
          [] pc = "loop"     -> Total = i
          [] pc = "dispatch" -> Total = i - 1
          [] pc = "done" /\ ~JobFailedSeen ->
                 i = Len(surgeries) /\ Total = Len(surgeries)
          [] pc \in {"summary", "done"} /\ JobFailedSeen ->
                 Total = i + 1 /\ Total <= Len(surgeries) + 1
          [] OTHER -> Total = 0

\* a step of the sweep adds 1 to at most one counter and takes nothing
\* from any; the step that ends the evaluation of a record adds 1 to
\* exactly one
CountsOne ==
    (~run_test /\ pc \in {"fetch", "loop", "dispatch", "summary"})
    => /\ sent' \in {sent, sent + 1}
       /\ skipped' \in {skipped, skipped + 1}
       /\ errors' \in {errors, errors + 1}
       /\ Total' \in {Total, Total + 1}
       /\ (pc = "loop" /\ pc' = "loop") => (i' = i + 1 /\ Total' = Total + 1)
       /\ pc = "dispatch" => (i' = i /\ Total' = Total + 1)

\* C23: every record of the fetched list adds 1 to exactly one of sent,
\* skipped and errors; a sweep that ends without its handler having run
\* has sent + skipped + errors equal to the number of records fetched, and
\* in every sweep the sum is at most that number plus one.
C23_Accounting == [][CountsOne /\ Accounted']_vars

\* a sweep of two records has ended without a job failure: one record was
\* skipped, the dispatch of the other raised, and the counters add up to 2
C23_Witness ==
    /\ pc = "done" /\ ~run_test /\ ~JobFailedSeen
    /\ Len(surgeries) = 2
    /\ sent = 0 /\ skipped = 1 /\ errors = 1

\* ------------------------------------------- properties of the three caches
\* the cache c holds None for the label L of this client
NegCached(c, L) ==
    \E j \in 1..Len(c) : c[j] = [key |-> CacheKey(slack.self, L), val |-> None]

\* every None the cache c holds, the cache d holds
NonesKept(c, d) ==
    \A j \in 1..Len(c) : c[j].val = None => \E k \in 1..Len(d) : d[k] = c[j]

\* the service rejected a call of the operation that has just answered
RejectedNow == \E f \in probe'.o : f.how = "SlackApiError"

\* the call that has just answered made no call of the Web API, left no
\* event and answered None
AnsweredNoneFromCache ==
    /\ probe'.exc = "none"
    /\ probe'.val = None
    /\ probe'.n = 0
    /\ trace' = <<>>

C24_Step ==
    /\ NonesKept(cc, cc') /\ NonesKept(uc, uc') /\ NonesKept(dc, dc')
    /\ probe'.op = "resolve_channel_id"
       => /\ (RejectedNow /\ probe'.exc = "none")
             => (probe'.val = None /\ NegCached(cc', probe'.arg))
          /\ NegCached(cc, probe'.arg) => AnsweredNoneFromCache
    /\ probe'.op = "resolve_user_id"
       => /\ (RejectedNow /\ probe'.exc = "none")
             => (probe'.val = None /\ NegCached(uc', probe'.arg))
          /\ NegCached(uc, probe'.arg) => AnsweredNoneFromCache
    /\ probe'.op = "dm_channel_for"
       => /\ (RejectedNow /\ probe'.exc = "none")
             => (probe'.val = None /\ NegCached(dc', probe'.arg))
          /\ NegCached(dc, probe'.arg) => AnsweredNoneFromCache

\* C24: a lookup (channel, user, or conversation of a user) that the
\* service rejected answers None and that None is kept in the cache of the
\* client; a None the cache holds stays there through every later
\* operation, and every later lookup of the label answers None from the
\* cache: no call, no event, whatever the service would answer now.
C24_NegativeCached == [][C24_Step]_vars

\* the channel "#s" exists, yet its lookup answers None from the cache
\* without a call: the None is the one kept when the service rejected the
\* first lookup
C24_Witness ==
    /\ Probed("resolve_channel_id")
    /\ probe.arg = <<"#", "s">>
    /\ probe.val = None /\ probe.n = 0 /\ trace = <<>>
    /\ NegCached(cc, <<"#", "s">>)

\* ------------------------------------------------- the sent counter
\* record i has a sent note, the last one written
SentNoted ==
    /\ notes # <<>>
    /\ LastNote.kind = "sent"
    /\ LastNote.animal_id = surgeries[i].animal_id

\* a destination operation of record i raised
DestinationRaised ==
    \E op \in ThreeDestinations : DispatchOutcome(op) \in {"none", "Error"}

\* C25: when the try statement of a due record has ended, the record is
\* counted and noted as sent if and only if none of the three destination
\* operations raised (all three were entered and each ended with a send, a
\* dry run or a skip), whether or not a message was posted; otherwise it
\* is counted as an error and has no sent note.
C25_SentIffNoneRaised ==
    (pc = "loop" /\ Dispatched)
    => LET raised == DestinationRaised
       IN  /\ SentNoted <=> ~raised
           /\ SentNoted <=> ~CaughtAny
           /\ sent = Cardinality(NotesOf("sent"))
           /\ i = 1 => /\ sent = (IF raised THEN 0 ELSE 1)
                       /\ errors = (IF raised THEN 1 ELSE 0)

\* all three destinations of a due record were skipped (channel unset,
\* manager unset, feed unset), no call of the Web API was made, and the
\* record is counted and noted as sent
C25_Witness ==
    /\ Dispatched /\ pc = "loop" /\ i = 1
    /\ \A op \in ThreeDestinations : DispatchOutcome(op) = "Skipped"
    /\ CallsMade = {}
    /\ SentNoted /\ sent = 1

\* ------------------------------------------------ clients and their caches
\* the keys a cache holds
KeysOf(c) == {c[j].key : j \in 1..Len(c)}

\* the label is looked up by a scan
Scanned(L) == L # None /\ ~_looks_like_id(L)

\* the request under way has looked up nothing yet
JustStarted == pc \in {"fetch", "test"} \/ (pc \in {"loop", "dispatch"} /\ i <= 1 /\ ~Entered)

\* C26: cache entries are keyed by (client, label) and every request
\* constructs its own client: the caches hold no entry of the new client
\* when a request starts, an entry of another client is never a hit (the
\* lookup of a label the client has no entry for calls the service), and
\* the first record dispatched in every sweep begins with the scan for the
\* surgery channel, whatever earlier requests have looked up.
C26_PerClientCache ==
    /\ \A k \in KeysOf(cc) \cup KeysOf(uc) \cup KeysOf(dc) : k[1] \in 1..slack.self
    /\ JustStarted
       => \A k \in KeysOf(cc) \cup KeysOf(uc) \cup KeysOf(dc) : k[1] # slack.self
    /\ (pc # "idle" /\ Scanned(environ.surgery_channel)
            /\ CacheKey(slack.self, environ.surgery_channel) \notin KeysOf(cc))
       => resolve_channel_id(Step, slack.self, environ.surgery_channel, {}).st.n >= 1
    /\ (pc # "idle" /\ Scanned(environ.surgery_manager)
            /\ ~startswith(environ.surgery_manager, "U")
            /\ CacheKey(slack.self, environ.surgery_manager) \notin KeysOf(uc))
       => resolve_user_id(Step, slack.self, environ.surgery_manager, {}).st.n >= 1
    /\ (Dispatched /\ i = 1 /\ Scanned(environ.surgery_channel))
       => /\ Len(trace) >= 2
          /\ IsCallOf(trace[2], "conversations_list")
          /\ trace[2].target = None

\* the second sweep of a behaviour has dispatched its first record: the
\* cache still holds what the client of the first sweep resolved the
\* surgery channel to, and the sweep has scanned for it again
C26_Witness ==
    /\ slack.self = 2
    /\ Dispatched /\ i = 1
    /\ Scanned(environ.surgery_channel)
    /\ CacheKey(1, environ.surgery_channel) \in KeysOf(cc)
    /\ CacheKey(2, environ.surgery_channel) \in KeysOf(cc)
    /\ IsCallOf(trace[2], "conversations_list")

====
